---- MODULE Spec2Model ----
(***************************************************************************)
(* Model of the ferry-schedule widget plugin (src/main.py):                *)
(*   - ShipFetchThread.run: the retry loop, the record filter and the      *)
(*     projection to ship_info dictionaries;                               *)
(*   - Plugin: the refresh scheduler (check_update, update_ship_dynamics,  *)
(*     handle_success, handle_failure, execute), the deferred renders      *)
(*     (_update_ui / update_widget_content) and the auto_scroll cursor.    *)
(*                                                                         *)
(* Conventions.  A Python dict is a function whose domain is the set of    *)
(* keys present.  A Python string that the code inspects is a sequence:    *)
(* `description` is a sequence of text fragments ('x' in description is    *)
(* membership of the fragment), `datetime` is a sequence of chunks, each   *)
(* either a run of whitespace or a maximal run of non-whitespace (a word). *)
(* The empty string is the empty sequence.  Chinese literals of the source *)
(* are written with ASCII stand-ins named after the source literal.        *)
(* Time is time.time() in whole seconds.                                   *)
(***************************************************************************)
EXTENDS Integers, Sequences, FiniteSets, Bags, TLC

VARIABLES
    now,                  \* time.time(), seconds
    today,                \* date.today()
    last_fetched,         \* Plugin.last_fetched
    cached_descriptions,  \* Plugin.cached_descriptions
    is_loading,           \* Plugin.is_loading
    workers,              \* every ShipFetchThread started so far, in start order
    backoff_timers,       \* bag of deadlines of pending QTimer.singleShot(300000, update_ship_dynamics)
    pending_ui,           \* number of queued QTimer.singleShot(0, lambda: update_widget_content(...))
    displayed,            \* the list last handed to create_scroll_area
    test_widget,          \* what get_widget last returned: see WidgetStates
    executed,             \* the host has called Plugin.execute()
    crashed,              \* the process was aborted by Qt (running QThread destroyed)
    fetched_src,          \* index in workers of the fetch that last set last_fetched (0: none yet)
    scroll_position,      \* Plugin.scroll_position
    scroll_max,           \* vertical_scrollbar.maximum()
    scroll_area_found,    \* test_widget.findChild(SmoothScrollArea) is not None
    sc_ticks,             \* number of auto_scroll calls that reached the cursor update
    sc_wraps,             \* number of those that reset the cursor to 0
    f_data,               \* input of the filter: the decoded `data` array
    f_filtered,           \* filtered_data
    f_out,                \* ship_info_list
    f_pc                  \* position in the filter/projection pipeline

vars == << now, today, last_fetched, cached_descriptions, is_loading, workers,
           backoff_timers, pending_ui, displayed, test_widget, executed, crashed,
           fetched_src, scroll_position, scroll_max, scroll_area_found,
           sc_ticks, sc_wraps, f_data, f_filtered, f_out, f_pc >>

schedVars == << now, last_fetched, cached_descriptions, is_loading, workers,
                backoff_timers, pending_ui, displayed, test_widget, executed,
                crashed, fetched_src >>
scrollVars == << scroll_position, scroll_max, scroll_area_found, sc_ticks, sc_wraps >>
filterVars == << f_data, f_filtered, f_out, f_pc >>

----------------------------------------------------------------------------
(* Bounds of the model *)

MaxWorkers == 3        \* workers started in one behaviour
MaxBackoffPeriods == 1 \* backoff periods observed beyond one cache period
StartTime == 1700000000 \* time.time() at construction
MaxScrollMax == 100    \* largest scrollbar maximum
MaxScrollTicks == 203  \* auto_scroll ticks in one behaviour
MaxDataLen == 2        \* longest `data` array fed to the filter

----------------------------------------------------------------------------
(* Program constants *)

CACHE_DURATION == 1800

\* a loop bound one too large (`<=` for `<` in line 27)
max_retries_inclusive == 3 + 1

max_retries == 3
BACKOFF_MS == 300000
BackoffSecs == BACKOFF_MS \div 1000

TARGET_ORIGIN == "LiuhengDaaoKeyunZhongxin"
DEST_SHENJIAMEN == "Shenjiamen"
DEST_CHANGZHI == "Changzhi"

LOADING_PLACEHOLDER == << [description |-> <<"ZhengzaiJiazai">>] >>
EMPTY_PLACEHOLDER == << [description |-> <<"ZanwuChuanbanXinxi">>] >>
ERROR_PLACEHOLDER == << [description |-> <<"HuoquShibai5FenzhongHouChongshi">>] >>

----------------------------------------------------------------------------
(* Python helpers *)

\* dict.get(key, default)
Get(item, key, default) == IF key \in DOMAIN item THEN item[key] ELSE default

None == "None"

\* 'frag' in description
Contains(description, frag) == \E i \in 1..Len(description) : description[i] = frag

\* chunks of a datetime string
SP == [kind |-> "space", sep |-> "", y |-> 0, m |-> 0, d |-> 0, tail |-> ""]
TimeWord == [kind |-> "word", sep |-> ":", y |-> 8, m |-> 0, d |-> 0, tail |-> ""]
DateWord(sep, y, m, d, tail) ==
    [kind |-> "word", sep |-> sep, y |-> y, m |-> m, d |-> d, tail |-> tail]

\* str.split(): the words of the string, whitespace dropped
RECURSIVE Split(_)
Split(s) ==
    IF s = << >> THEN << >>
    ELSE IF Head(s).kind = "space" THEN Split(Tail(s))
    ELSE << Head(s) >> \o Split(Tail(s))

IsLeap(y) == (y % 4 = 0 /\ y % 100 # 0) \/ y % 400 = 0

DaysInMonth(y, m) ==
    IF m = 2 THEN (IF IsLeap(y) THEN 29 ELSE 28)
    ELSE IF m \in {4, 6, 9, 11} THEN 30 ELSE 31

\* datetime.strptime(word, '%Y-%m-%d') does not raise ValueError
Parsable(word) ==
    /\ word.sep = "-"
    /\ word.tail = ""
    /\ word.y \in 1..9999
    /\ word.m \in 1..12
    /\ word.d \in 1..DaysInMonth(word.y, word.m)

\* datetime.strptime(word, '%Y-%m-%d').date()
ParseDate(word) == << word.y, word.m, word.d >>

----------------------------------------------------------------------------
(* ShipFetchThread.run: filter and projection *)

\* condition 3 of the filter loop (lines 49-58): TRUE when the item is not skipped
DateCondition(item, tdy) ==
    LET item_datetime == Get(item, "datetime", << >>) IN
    IF item_datetime # << >>
    THEN LET words == Split(item_datetime) IN
         IF words = << >> THEN FALSE                 \* IndexError
         ELSE IF ~Parsable(words[1]) THEN FALSE      \* ValueError
         ELSE ParseDate(words[1]) = tdy
    ELSE TRUE

\* one iteration of the filter loop: TRUE when the item is appended
KeepItem(item, tdy) ==
    IF Get(item, "confrom", None) # TARGET_ORIGIN THEN FALSE
    ELSE LET description == Get(item, "description", << >>) IN
         IF ~(Contains(description, DEST_SHENJIAMEN) \/ Contains(description, DEST_CHANGZHI))
         THEN FALSE
         ELSE DateCondition(item, tdy)

RECURSIVE FilterLoop(_, _, _)
FilterLoop(data, tdy, filtered_data) ==
    IF data = << >> THEN filtered_data
    ELSE FilterLoop(Tail(data), tdy,
                    IF KeepItem(Head(data), tdy)
                    THEN Append(filtered_data, Head(data))
                    ELSE filtered_data)

\* the loop of lines 38-60 with line 60 inserting at the front instead of
\* appending
FilterData_newest_first(data, tdy) ==
    LET kept == FilterLoop(data, tdy, << >>) IN
    [i \in 1..Len(kept) |-> kept[Len(kept) + 1 - i]]

FilterData(data, tdy) == FilterLoop(data, tdy, << >>)

ShipInfo(item) ==
    [datetime |-> Get(item, "datetime", << >>),
     description |-> Get(item, "description", << >>),
     fbz |-> Get(item, "fbz", "")]

RECURSIVE ProjectLoop(_, _)
ProjectLoop(filtered_data, ship_info_list) ==
    IF filtered_data = << >> THEN ship_info_list
    ELSE ProjectLoop(Tail(filtered_data), Append(ship_info_list, ShipInfo(Head(filtered_data))))

Project(filtered_data) == ProjectLoop(filtered_data, << >>)

----------------------------------------------------------------------------
(* Inputs: the records the upstream feed may return *)

DayA == << 2024, 1, 1 >>
DayB == << 2024, 1, 2 >>
Days == { DayA, DayB }

DT_DayA == << DateWord("-", 2024, 1, 1, ""), SP, TimeWord >>     \* "2024-01-01 08:00:00"
DT_DayB == << DateWord("-", 2024, 1, 2, ""), SP, TimeWord >>     \* "2024-01-02 08:00:00"
DT_Empty == << >>                                                \* ""
DT_Blank == << SP >>                                             \* "  "
DT_Slash == << DateWord("/", 2024, 1, 1, ""), SP, TimeWord >>    \* "2024/01/01 08:00:00"
DT_Month13 == << DateWord("-", 2024, 13, 1, ""), SP, TimeWord >> \* "2024-13-01 08:00:00"
DT_Feb30 == << DateWord("-", 2024, 2, 30, "") >>                 \* "2024-02-30"
DT_IsoT == << DateWord("-", 2024, 1, 1, "T08:00:00") >>          \* "2024-01-01T08:00:00"
DT_Lead == << SP, DateWord("-", 2024, 1, 1, "") >>               \* " 2024-01-01"

Desc_SJM == << "Liuheng-", DEST_SHENJIAMEN >>
Desc_CZ == << DEST_CHANGZHI, "-tingHang" >>
Desc_Other == << "Liuheng-Ningbo" >>

AllKeys == { "confrom", "description", "datetime", "fbz" }

\* a decoded JSON object holding the keys `keys`
Item(keys, confrom, description, datetime, fbz) ==
    [k \in keys |-> CASE k = "confrom" -> confrom
                      [] k = "description" -> description
                      [] k = "datetime" -> datetime
                      [] OTHER -> fbz]

BaseItem == Item(AllKeys, TARGET_ORIGIN, Desc_SJM, DT_DayA, "3hao")

Items ==
    { Item(ks, c, d, t, "3hao") :
        ks \in { AllKeys, AllKeys \ {"datetime"}, AllKeys \ {"confrom"} },
        c \in { TARGET_ORIGIN, "ShenjiamenBanshengdong" },
        d \in { Desc_SJM, Desc_CZ, Desc_Other },
        t \in { DT_DayA, DT_DayB, DT_Blank } }
    \cup { Item(AllKeys, TARGET_ORIGIN, Desc_SJM, t, "3hao") :
             t \in { DT_Empty, DT_Slash, DT_Month13, DT_Feb30, DT_IsoT, DT_Lead } }
    \cup { Item(AllKeys \ {"description"}, TARGET_ORIGIN, Desc_SJM, DT_DayA, "3hao"),
           Item(AllKeys \ {"fbz"}, TARGET_ORIGIN, Desc_CZ, DT_DayA, "3hao") }

\* the non-empty lists over S of length at most n (line 32: the filter runs on a non-empty `data`)
NonEmptySeqs(S, n) == UNION { [1..k -> S] : k \in 1..n }

----------------------------------------------------------------------------
(* The filter and projection stage on its own *)

InitPlugin ==
    /\ last_fetched = 0
    /\ cached_descriptions = LOADING_PLACEHOLDER
    /\ is_loading = FALSE
    /\ scroll_position = 0

InitIdle ==
    /\ now = StartTime
    /\ workers = << >>
    /\ backoff_timers = EmptyBag
    /\ pending_ui = 0
    /\ displayed = << >>
    /\ executed = FALSE
    /\ crashed = FALSE
    /\ fetched_src = 0

InitNoScroll ==
    /\ scroll_max = 0
    /\ scroll_area_found = FALSE
    /\ sc_ticks = 0
    /\ sc_wraps = 0

\* Plugin.test_widget (lines 151, 189) together with what line 193 finds in it:
\* None, a widget without a 'contentLayout', a widget with one
WidgetStates == { "none", "no_layout", "ok" }

InitNoFilter ==
    /\ f_data = << >>
    /\ f_filtered = << >>
    /\ f_out = << >>
    /\ f_pc = "idle"

InitFilter ==
    /\ InitPlugin /\ InitIdle /\ InitNoScroll
    /\ test_widget = "none"
    /\ today \in Days
    /\ f_data \in NonEmptySeqs(Items, MaxDataLen)
    /\ f_filtered = << >>
    /\ f_out = << >>
    /\ f_pc = "decoded"

\* lines 36-60
RunFilter ==
    /\ f_pc = "decoded"
    /\ f_filtered' = FilterData(f_data, today)
    /\ f_pc' = "filtered"
    /\ UNCHANGED << f_data, f_out, today, schedVars, scrollVars >>

\* lines 62-70
RunProject ==
    /\ f_pc = "filtered"
    /\ f_out' = Project(f_filtered)
    /\ f_pc' = "projected"
    /\ UNCHANGED << f_data, f_filtered, today, schedVars, scrollVars >>

\* lines 36-60 run once more on the same decoded data (the next fetch of an
\* unchanged feed on the same day)
RunFilterAgain ==
    /\ f_pc = "filtered"
    /\ f_filtered' = FilterData(f_data, today)
    /\ f_pc' = "filtered_again"
    /\ UNCHANGED << f_data, f_out, today, schedVars, scrollVars >>

\* lines 36-60 run on the list they produced
RunFilterOnOutput ==
    /\ f_pc = "filtered"
    /\ f_filtered' = FilterData(f_filtered, today)
    /\ f_pc' = "output_filtered"
    /\ UNCHANGED << f_data, f_out, today, schedVars, scrollVars >>

NextFilter == RunFilter \/ RunProject \/ RunFilterAgain \/ RunFilterOnOutput

SpecFilter == InitFilter /\ [][NextFilter]_vars

----------------------------------------------------------------------------
(* The refresh scheduler and its workers *)

\* what one requests.get + raise_for_status + json().get("data", []) yields
ExcResponse == [kind |-> "exc", data |-> << >>]
OkResponse(data) == [kind |-> "ok", data |-> data]
NoResponse == [kind |-> "none", data |-> << >>]

OtherOriginItem == Item(AllKeys, "ShenjiamenBanshengdong", Desc_SJM, DT_DayA, "1hao")

Responses ==
    { ExcResponse, OkResponse(<< >>), OkResponse(<< BaseItem >>),
      OkResponse(<< OtherOriginItem >>) }

\* ShipFetchThread.__init__ followed by start()
NewWorker ==
    [pc |-> "run", retry_count |-> 0, attempts |-> 0, emits |-> 0,
     resp |-> NoResponse, result |-> << >>]

\* a worker whose completion has been handled: the thread is finished
Handled ==
    [pc |-> "handled", retry_count |-> 0, attempts |-> 0, emits |-> 0,
     resp |-> NoResponse, result |-> << >>]

InFlight ==
    { w \in 1..Len(workers) : workers[w].pc \in { "run", "emitted_success", "emitted_failed" } }

\* fetch_success / fetch_failed emitted from the worker thread and not yet
\* delivered to the slot on the event loop
QueuedSignals ==
    { w \in 1..Len(workers) : workers[w].pc \in { "emitted_success", "emitted_failed" } }

\* the comparison of line 155 written with >=
IsStale_inclusive(t, fetched) == t - fetched >= CACHE_DURATION

\* line 155, left conjunct
IsStale(t, fetched) == t - fetched > CACHE_DURATION

\* _update_ui (lines 183-185): queue one deferred render
UpdateUi == pending_ui' = pending_ui + 1

\* update_ship_dynamics (lines 158-167).  Line 164 drops the only reference to
\* the previous ShipFetchThread; when that thread is still inside run() Qt may
\* abort the process ("QThread: Destroyed while thread is still running") or
\* the thread may live on.
UpdateShipDynamics ==
    /\ \/ /\ Len(workers) < MaxWorkers
          /\ is_loading' = TRUE
          /\ cached_descriptions' = LOADING_PLACEHOLDER
          /\ UpdateUi
          /\ workers' = Append(workers, NewWorker)
          /\ crashed' = FALSE
       \/ /\ workers # << >>
          /\ workers[Len(workers)].pc = "run"
          /\ crashed' = TRUE
          /\ UNCHANGED << is_loading, cached_descriptions, pending_ui, workers >>
    /\ UNCHANGED << now, today, last_fetched, displayed, test_widget, fetched_src >>

\* check_update (lines 153-156), the 1000 ms timer
CheckUpdate ==
    /\ ~crashed
    /\ executed
    /\ IF IsStale(now, last_fetched) /\ ~is_loading
       THEN /\ UpdateShipDynamics
            /\ UNCHANGED << backoff_timers, executed >>
       ELSE UNCHANGED schedVars
    /\ UNCHANGED << today, scrollVars, filterVars >>

\* execute (lines 324-326): the host's first call into the plugin, made once
\* after construction and before the event loop delivers any timer event
Execute ==
    /\ ~crashed
    /\ ~executed
    /\ executed' = TRUE
    /\ UpdateShipDynamics
    /\ UNCHANGED << backoff_timers, today, scrollVars, filterVars >>

\* the one-shot of line 181 fires: update_ship_dynamics
BackoffFire ==
    /\ ~crashed
    /\ \E deadline \in BagToSet(backoff_timers) :
         /\ now >= deadline
         /\ backoff_timers' = backoff_timers (-) SetToBag({deadline})
    /\ UpdateShipDynamics
    /\ UNCHANGED << executed, today, scrollVars, filterVars >>

\* one iteration of the retry loop (lines 27-77); when the iteration was the
\* last one the loop condition fails and fetch_failed is emitted (line 79)
WorkerAttempt(w, response) ==
    /\ ~crashed
    /\ workers[w].pc = "run"
    /\ workers[w].retry_count < max_retries
    /\ workers' =
         [workers EXCEPT ![w] =
            IF response.kind = "ok" /\ response.data # << >>
            THEN [@ EXCEPT !.attempts = @ + 1, !.resp = response,
                           !.result = Project(FilterData(response.data, today)),
                           !.emits = @ + 1, !.pc = "emitted_success"]
            ELSE IF workers[w].retry_count + 1 < max_retries
            THEN [@ EXCEPT !.attempts = @ + 1, !.resp = response,
                           !.retry_count = @ + 1]
            ELSE [@ EXCEPT !.attempts = @ + 1, !.resp = response,
                           !.retry_count = @ + 1,
                           !.emits = @ + 1, !.pc = "emitted_failed"]]
    /\ UNCHANGED << now, today, last_fetched, cached_descriptions, is_loading,
                    backoff_timers, pending_ui, displayed, test_widget, executed,
                    crashed, fetched_src, scrollVars, filterVars >>

\* line 173 without its `or [...]` fallback
SuccessSnapshot_raw(ship_info_list) == ship_info_list

\* line 173: ship_info_list or [{"description": ...}]
SuccessSnapshot(ship_info_list) ==
    IF ship_info_list # << >> THEN ship_info_list ELSE EMPTY_PLACEHOLDER

\* handle_success without line 174: the new snapshot is stored but no render
\* is queued
HandleSuccess_no_render(w) ==
    /\ ~crashed
    /\ workers[w].pc = "emitted_success"
    /\ is_loading' = FALSE
    /\ last_fetched' = now
    /\ cached_descriptions' = SuccessSnapshot(workers[w].result)
    /\ pending_ui' = pending_ui
    /\ workers' = [workers EXCEPT ![w] = Handled]
    /\ fetched_src' = w
    /\ UNCHANGED << now, today, backoff_timers, displayed, test_widget, executed,
                    crashed, scrollVars, filterVars >>

\* handle_success without line 172: the timestamp is not refreshed
HandleSuccess_no_timestamp(w) ==
    /\ ~crashed
    /\ workers[w].pc = "emitted_success"
    /\ is_loading' = FALSE
    /\ last_fetched' = last_fetched
    /\ cached_descriptions' = SuccessSnapshot(workers[w].result)
    /\ UpdateUi
    /\ workers' = [workers EXCEPT ![w] = Handled]
    /\ fetched_src' = w
    /\ UNCHANGED << now, today, backoff_timers, displayed, test_widget, executed,
                    crashed, scrollVars, filterVars >>

\* handle_success (lines 169-174), the queued fetch_success of worker w delivered
HandleSuccess(w) ==
    /\ ~crashed
    /\ workers[w].pc = "emitted_success"
    /\ is_loading' = FALSE
    /\ last_fetched' = now
    /\ cached_descriptions' = SuccessSnapshot(workers[w].result)
    /\ UpdateUi
    /\ workers' = [workers EXCEPT ![w] = Handled]
    /\ fetched_src' = w
    /\ UNCHANGED << now, today, backoff_timers, displayed, test_widget, executed,
                    crashed, scrollVars, filterVars >>

\* handle_failure stamping the time of the failure into last_fetched
HandleFailure_stamps_time(w) ==
    /\ ~crashed
    /\ workers[w].pc = "emitted_failed"
    /\ is_loading' = FALSE
    /\ last_fetched' = now
    /\ cached_descriptions' = ERROR_PLACEHOLDER
    /\ UpdateUi
    /\ backoff_timers' = backoff_timers (+) SetToBag({now + BackoffSecs})
    /\ workers' = [workers EXCEPT ![w] = Handled]
    /\ UNCHANGED fetched_src
    /\ UNCHANGED << now, today, displayed, test_widget, executed,
                    crashed, scrollVars, filterVars >>

\* handle_failure (lines 176-181), the queued fetch_failed of worker w delivered
HandleFailure(w) ==
    /\ ~crashed
    /\ workers[w].pc = "emitted_failed"
    /\ is_loading' = FALSE
    /\ cached_descriptions' = ERROR_PLACEHOLDER
    /\ UpdateUi
    /\ backoff_timers' = backoff_timers (+) SetToBag({now + BackoffSecs})
    /\ workers' = [workers EXCEPT ![w] = Handled]
    /\ UNCHANGED fetched_src
    /\ UNCHANGED << now, today, last_fetched, displayed, test_widget, executed,
                    crashed, scrollVars, filterVars >>

\* a deferred render runs: update_widget_content(self.cached_descriptions), lines 185-211
Render(widget) ==
    /\ ~crashed
    /\ pending_ui > 0
    /\ pending_ui' = pending_ui - 1
    /\ test_widget' = widget
    /\ displayed' = IF widget = "ok" THEN cached_descriptions ELSE displayed
    /\ UNCHANGED << now, today, last_fetched, cached_descriptions, is_loading, workers,
                    backoff_timers, executed, crashed, fetched_src, scrollVars, filterVars >>

\* the instants at which the model observes the clock
ClockSteps == { BackoffSecs, CACHE_DURATION }
MaxElapsed == CACHE_DURATION + MaxBackoffPeriods * BackoffSecs

\* wall-clock time passes.  No handler blocks the event loop, so what the loop
\* already owes is delivered long before a clock step has passed: the 0 ms
\* one-shots, the queued signals, the one-shots that are or become due, and a
\* 1000 ms tick (which launches a fetch when its condition holds).
Advance(step) ==
    /\ ~crashed
    /\ pending_ui = 0
    /\ QueuedSignals = {}
    /\ \A deadline \in BagToSet(backoff_timers) : now + step <= deadline
    /\ ~(IsStale(now, last_fetched) /\ ~is_loading)
    /\ now + step <= StartTime + MaxElapsed
    /\ now' = now + step
    /\ UNCHANGED << today, last_fetched, cached_descriptions, is_loading, workers,
                    backoff_timers, pending_ui, displayed, test_widget, executed,
                    crashed, fetched_src, scrollVars, filterVars >>

Init ==
    /\ InitPlugin /\ InitIdle /\ InitNoScroll /\ InitNoFilter
    /\ test_widget = "none"
    /\ today = DayA

Next ==
    \/ CheckUpdate
    \/ Execute
    \/ BackoffFire
    \/ \E w \in 1..Len(workers), response \in Responses : WorkerAttempt(w, response)
    \/ \E w \in 1..Len(workers) : HandleSuccess(w)
    \/ \E w \in 1..Len(workers) : HandleFailure(w)
    \/ \E widget \in WidgetStates : Render(widget)
    \/ \E step \in ClockSteps : Advance(step)

Spec == Init /\ [][Next]_vars

----------------------------------------------------------------------------
(* The auto-scroll cursor on its own *)

InitScroll ==
    /\ InitPlugin /\ InitIdle /\ InitNoFilter
    /\ today = DayA
    /\ test_widget \in WidgetStates
    /\ scroll_area_found \in BOOLEAN
    /\ scroll_max \in 0..MaxScrollMax
    /\ sc_ticks = 0
    /\ sc_wraps = 0

\* the comparison of line 318 written with >
ScrollStep_strict(position, max_value) ==
    IF position > max_value THEN 0 ELSE position + 1

\* lines 317-321
ScrollStep(position, max_value) ==
    IF position >= max_value THEN 0 ELSE position + 1

\* auto_scroll (lines 301-322), the 50 ms timer
AutoScroll ==
    /\ sc_ticks < MaxScrollTicks
    /\ IF test_widget = "none" \/ ~scroll_area_found
       THEN UNCHANGED << scroll_position, sc_ticks, sc_wraps >>
       ELSE /\ scroll_position' = ScrollStep(scroll_position, scroll_max)
            /\ sc_ticks' = sc_ticks + 1
            /\ sc_wraps' = IF scroll_position >= scroll_max THEN sc_wraps + 1 ELSE sc_wraps
    /\ UNCHANGED << scroll_max, scroll_area_found, today, schedVars, filterVars >>

NextScroll == AutoScroll

SpecScroll == InitScroll /\ [][NextScroll]_vars

----------------------------------------------------------------------------
(* Properties *)

Launched == Len(workers') = Len(workers) + 1
EverFetched == fetched_src # 0
Elapsed == now - last_fetched

\* C1: at most one fetch worker is in flight (started, completion not yet
\* handled) in every reachable state.
C1_AtMostOneInFlight == Cardinality(InFlight) <= 1

\* C2: after handle_failure at time t no worker is started before the backoff
\* deadline t + 5 minutes: whenever a worker is started, every pending backoff
\* deadline has been reached.
C2_NoFetchBeforeBackoffDeadline ==
    [][Launched => \A deadline \in BagToSet(backoff_timers) : now >= deadline]_vars

\* C3: a successful response with an empty `data` array is a terminal success:
\* the worker that received it has emitted fetch_success and attempts nothing more.
C3_EmptyDataIsSuccess ==
    \A w \in 1..Len(workers) :
        workers[w].resp = OkResponse(<< >>) => workers[w].pc = "emitted_success"

\* C4: a run whose attempts all fail performs exactly 3 HTTP attempts and then
\* emits fetch_failed exactly once: a worker still in the loop has made fewer
\* than 3 attempts and emitted nothing, and a worker that reported failure has
\* made exactly 3 attempts and emitted exactly once.
C4_ExhaustionAfterExactlyThree ==
    \A w \in 1..Len(workers) :
        /\ workers[w].attempts <= 3
        /\ workers[w].emits <= 1
        /\ workers[w].pc = "run" => workers[w].attempts < 3 /\ workers[w].emits = 0
        /\ workers[w].pc = "emitted_failed" => workers[w].attempts = 3 /\ workers[w].emits = 1

C4_Witness ==
    \E w \in 1..Len(workers) :
        workers[w].pc = "emitted_failed" /\ workers[w].attempts = 3 /\ workers[w].emits = 1

\* C5 as stated: the staleness test of check_update is true iff no successful
\* fetch has happened yet or the elapsed time e satisfies e >= TTL.
C5_StaleIffAtLeastTTL ==
    IsStale(now, last_fetched) <=> (~EverFetched \/ Elapsed >= CACHE_DURATION)

\* C5 as amended: the staleness test of check_update is true iff no successful
\* fetch has happened yet or the elapsed time e satisfies e > TTL; at e = TTL
\* exactly the cache is not stale.
C5_StaleIffExceedsTTL ==
    /\ IsStale(now, last_fetched) <=> (~EverFetched \/ Elapsed > CACHE_DURATION)
    /\ EverFetched /\ Elapsed = CACHE_DURATION => ~IsStale(now, last_fetched)

C5_Witness == EverFetched /\ Elapsed = CACHE_DURATION /\ ~is_loading

\* what C6 says is retained
C6_Retained(item, tdy) ==
    /\ "confrom" \in DOMAIN item /\ item["confrom"] = TARGET_ORIGIN
    /\ "description" \in DOMAIN item
    /\ \E frag \in { DEST_SHENJIAMEN, DEST_CHANGZHI } : Contains(item["description"], frag)
    /\ "datetime" \in DOMAIN item
    /\ item["datetime"] # << >>
    /\ Split(item["datetime"]) # << >>
    /\ Parsable(Split(item["datetime"])[1])
    /\ ParseDate(Split(item["datetime"])[1]) = tdy

\* C6: the filter retains exactly the records whose origin is the target, whose
\* description names a destination and whose parsed date is today; a record
\* whose datetime is missing, empty or unparsable is dropped.
C6_FilterRetainsExactly ==
    f_pc \in { "filtered", "projected" } =>
        f_filtered = SelectSeq(f_data, LAMBDA item : C6_Retained(item, today))

HandledSuccess(w) ==
    /\ w \in 1..Len(workers)
    /\ workers[w].pc = "emitted_success"
    /\ workers'[w].pc = "handled"

HandledFailure(w) ==
    /\ w \in 1..Len(workers)
    /\ workers[w].pc = "emitted_failed"
    /\ workers'[w].pc = "handled"

C8_NoOlderOverwritesNewer ==
    [][fetched_src' # fetched_src => fetched_src' > fetched_src]_vars

\* C9: a worker is started only when the cache is stale: no successful fetch
\* has happened yet or at least the TTL has passed since the last one.
C9_LaunchOnlyWhenStale ==
    [][Launched => (~EverFetched \/ Elapsed >= CACHE_DURATION)]_vars

\* C10: with a fixed scrollbar maximum and the cursor starting at 0, each
\* effective auto_scroll tick advances the cursor by one up to the maximum and
\* the next one resets it to 0: after n ticks the cursor is n mod (max + 1) and
\* has wrapped n div (max + 1) times, so it stays within 0..max, is 0 again
\* after max + 1 ticks with one wrap, and stays at 0 when max = 0.
C10_CursorWraps ==
    /\ scroll_position \in 0..scroll_max
    /\ scroll_position = sc_ticks % (scroll_max + 1)
    /\ sc_wraps = sc_ticks \div (scroll_max + 1)
    /\ scroll_max = 0 => scroll_position = 0
    /\ sc_ticks = scroll_max + 1 => scroll_position = 0 /\ sc_wraps = 1

C10_Witness ==
    scroll_max = 100 /\ sc_ticks = 101 /\ scroll_position = 0 /\ sc_wraps = 1

\* C11, state part: a worker makes at most 3 attempts and emits at most one
\* signal; while it is in the loop it has emitted nothing, and once it has
\* left the loop it has emitted exactly one of fetch_success / fetch_failed.
C11_OneSignalPerWorker ==
    \A w \in 1..Len(workers) :
        /\ workers[w].attempts <= 3
        /\ workers[w].pc = "run" => workers[w].emits = 0 /\ workers[w].attempts < 3
        /\ workers[w].pc \in { "emitted_success", "emitted_failed" } => workers[w].emits = 1

\* C11, step part: a worker's completion is handled by the slot of the signal
\* it emitted (handle_success sets last_fetched, handle_failure arms the
\* one-shot), a worker leaves the loop only by emitting, and a handled worker
\* is never handled again.
C11_OneHandlerPerWorker ==
    \A w \in 1..Len(workers) :
        /\ HandledSuccess(w) =>
             last_fetched' = now /\ fetched_src' = w /\ backoff_timers' = backoff_timers
        /\ HandledFailure(w) =>
             /\ backoff_timers' = backoff_timers (+) SetToBag({now + BackoffSecs})
             /\ last_fetched' = last_fetched
        /\ workers[w].pc = "run" => workers'[w].pc \in { "run", "emitted_success", "emitted_failed" }
        /\ workers[w].pc = "emitted_success" => workers'[w].pc \in { "emitted_success", "handled" }
        /\ workers[w].pc = "emitted_failed" => workers'[w].pc \in { "emitted_failed", "handled" }
        /\ workers[w].pc = "handled" => workers'[w] = workers[w]

C12_FirstSuccessReturned ==
    \A w \in 1..Len(workers) :
        /\ workers[w].pc = "run" /\ workers[w].attempts > 0 => workers[w].resp.kind = "exc"
        /\ workers[w].pc = "emitted_success" =>
             /\ workers[w].resp.kind = "ok"
             /\ workers[w].result = Project(FilterData(workers[w].resp.data, today))
        /\ workers[w].pc = "emitted_failed" =>
             workers[w].attempts = max_retries /\ workers[w].resp.kind # "ok"

\* C12, step part: each attempt consumes exactly one unit of the budget, and
\* after a signal has been emitted no further attempt is made.
C12_OneAttemptPerStep ==
    \A w \in 1..Len(workers) :
        /\ workers[w].pc = "run" /\ workers'[w].pc # "handled" =>
             workers'[w].attempts \in { workers[w].attempts, workers[w].attempts + 1 }
        /\ workers[w].pc \in { "emitted_success", "emitted_failed" } /\ workers'[w].pc # "handled" =>
             workers'[w] = workers[w]

\* C12: the retry loop returns the first success; a failed attempt consumes
\* exactly one attempt and does not abort the loop; fetch_success carries the
\* items of the succeeding attempt and ends the loop; fetch_failed is emitted
\* only after the budget of 3 attempts is exhausted.
C12_RetryReturnsFirstSuccess ==
    []C12_FirstSuccessReturned /\ [][C12_OneAttemptPerStep]_vars

\* handle_failure has run and no worker has been started since: only
\* handle_failure stores the error placeholder, and every launch and every
\* handle_success overwrites it
FailedAndNotRestarted == cached_descriptions = ERROR_PLACEHOLDER

\* C13, step part: handle_failure publishes the error placeholder (stores it
\* and queues a render) and arms the one-shot that starts the next worker.
C13_FailurePublishes ==
    \A w \in 1..Len(workers) :
        HandledFailure(w) =>
            /\ cached_descriptions' = ERROR_PLACEHOLDER
            /\ pending_ui' = pending_ui + 1
            /\ ~is_loading'
            /\ BagIn(now + BackoffSecs, backoff_timers')

C14_SuccessEffects ==
    \A w \in 1..Len(workers) :
        HandledSuccess(w) =>
            /\ is_loading' = FALSE
            /\ last_fetched' = now
            /\ cached_descriptions' =
                 IF workers[w].result # << >> THEN workers[w].result ELSE EMPTY_PLACEHOLDER
            /\ pending_ui' = pending_ui + 1

\* C14, state part: less than CACHE_DURATION after a handle_success the 1000 ms
\* tick changes nothing.
C14_FreshTickIsNoOp ==
    EverFetched /\ ~crashed /\ now - last_fetched < CACHE_DURATION
        => ~ENABLED <<CheckUpdate>>_vars

\* C14: handle_success returns the scheduler to idle, records the time of the
\* fetch, stores and publishes the result (or the empty placeholder), and every
\* tick arriving less than CACHE_DURATION later is a no-op.
C14_SuccessThenQuiet ==
    [][C14_SuccessEffects]_vars /\ []C14_FreshTickIsNoOp

C14_Witness ==
    /\ EverFetched
    /\ executed
    /\ ~crashed
    /\ ~is_loading
    /\ now > last_fetched
    /\ now - last_fetched < CACHE_DURATION
    /\ cached_descriptions = EMPTY_PLACEHOLDER

\* C15, step part: a tick that changes anything does so from an idle, stale
\* state, and then sets is_loading, stores the loading placeholder, queues one
\* render and starts exactly one worker.
C15_TickLaunch ==
    CheckUpdate =>
        /\ ~is_loading /\ IsStale(now, last_fetched)
        /\ is_loading' = TRUE
        /\ cached_descriptions' = LOADING_PLACEHOLDER
        /\ pending_ui' = pending_ui + 1
        /\ workers' = Append(workers, NewWorker)
        /\ last_fetched' = last_fetched

\* C15, state part: while a fetch is in flight or the cache is fresh the tick
\* changes nothing.
C15_TickNoOp ==
    ~crashed /\ (is_loading \/ ~IsStale(now, last_fetched)) => ~ENABLED <<CheckUpdate>>_vars

RECURSIVE IsSubsequence(_, _)
IsSubsequence(sub, seq) ==
    IF sub = << >> THEN TRUE
    ELSE IF seq = << >> THEN FALSE
    ELSE IF Head(sub) = Head(seq) THEN IsSubsequence(Tail(sub), Tail(seq))
    ELSE IsSubsequence(sub, Tail(seq))

\* C16, state part: the filtered list is a subsequence of the decoded list, in
\* the decoded list's order.
C16_OutputIsSubsequence ==
    f_pc # "decoded" => IsSubsequence(f_filtered, f_data)

\* C16, step part: filtering the same data again, and filtering the filtered
\* list, both give the filtered list back.
C16_SameOutputAgain ==
    f_pc = "filtered" /\ f_pc' \in { "filtered_again", "output_filtered" }
        => f_filtered' = f_filtered

C17_InitialUntilFirstSuccess ==
    ~EverFetched => last_fetched = 0

\* C17, step part: last_fetched never decreases; a step that changes it is a
\* handle_success; a launch (from execute, a tick or the one-shot) and
\* handle_failure leave it as it was.
C17_OnlySuccessAdvances ==
    /\ last_fetched' >= last_fetched
    /\ last_fetched' # last_fetched =>
         \E w \in 1..Len(workers) : HandledSuccess(w) /\ last_fetched' = now
    /\ Launched => last_fetched' = last_fetched
    /\ (\E w \in 1..Len(workers) : HandledFailure(w)) => last_fetched' = last_fetched

\* C17: last_fetched keeps its initial value until the first successful fetch,
\* is changed only by handle_success and never decreases; launches, ticks and
\* handle_failure leave it unchanged.
C17_LastFetchedMonotone ==
    []C17_InitialUntilFirstSuccess /\ [][C17_OnlySuccessAdvances]_vars

C17_Witness ==
    /\ cached_descriptions = ERROR_PLACEHOLDER
    /\ EverFetched
    /\ last_fetched > 0
    /\ last_fetched < now

\* C18: is_loading is True exactly while some started worker's completion has
\* not yet been handled.
C18_FlagTracksWorker ==
    ~crashed => (is_loading <=> InFlight # {})

\* C19, step part: the displayed list changes only when a queued render runs,
\* and the render shows the whole of cached_descriptions as it is at that
\* moment.
C19_RenderReadsCurrent ==
    displayed' # displayed =>
        /\ pending_ui > 0
        /\ pending_ui' = pending_ui - 1
        /\ displayed' = cached_descriptions
        /\ cached_descriptions' = cached_descriptions

\* C19, state part: with no render pending and the widget (with its
\* contentLayout) found by the last render, the displayed list is the current
\* cached_descriptions.
C19_Converged ==
    pending_ui = 0 /\ test_widget = "ok" => displayed = cached_descriptions

\* C19: every deferred render shows the value cached_descriptions has when the
\* render runs, whole; and whenever no render is pending and the widget is
\* available, the list on display equals cached_descriptions.
C19_DisplayConvergesToCache ==
    [][C19_RenderReadsCurrent]_vars /\ []C19_Converged

C19_Witness ==
    /\ pending_ui = 0
    /\ test_widget = "ok"
    /\ EverFetched
    /\ displayed = cached_descriptions
    /\ displayed \notin { LOADING_PLACEHOLDER, EMPTY_PLACEHOLDER, ERROR_PLACEHOLDER }

====
